---- MODULE Spec2Model ----
(***************************************************************************)
(* Model of the realtime data path of mt32emu_qt:                          *)
(*   - JACKAudioDriver.cpp: the prerendering thread (JACKAudioProcessor),  *)
(*     the JACK process callback (JACKAudioStream::renderStreams), the     *)
(*     buffer size callback (onJACKBufferSizeChange / setBufferSize) and   *)
(*     JACKAudioStream::start / stop;                                      *)
(*   - SynthRoute.h: the route state machine and the MIDI merge.           *)
(* Ring buffer positions and sizes are in bytes, as in the source.         *)
(***************************************************************************)
EXTENDS Integers, Sequences, FiniteSets, TLC

(* ------------------------------ bounds -------------------------------- *)
\* Largest audio latency (frames) configured in the settings.
MaxLatency == 2
\* Largest buffer size (frames) the JACK server reports.
MaxJackBuffer == 2
\* Largest frame count the JACK server requests in one process callback.
MaxRequest == 2
\* Cap of the count of bufferDataRetrievals (it is unbounded in the code).
MaxRetrievals == 3
\* The frames the processor thread renders while frames are numbered.
MaxFrames == 6
\* Stand-in for MT32Emu::MAX_SAMPLES_PER_RUN (4096 in the library).
MAX_SAMPLES_PER_RUN == 1

(* ------------------------- program constants -------------------------- *)
CHANNEL_COUNT == 2
MINIMUM_JACK_BUFFER_COUNT == 2
SizeofFloat == 4
FRAME_BYTE_SIZE == SizeofFloat * CHANNEL_COUNT

Min(a, b) == IF a < b THEN a ELSE b
Max(a, b) == IF a > b THEN a ELSE b

(* ------------------------- Utility::QRingBuffer ----------------------- *)
\* The value of the buffer member while no ring buffer is allocated.
NoBuffer == [bufferSize |-> 0, writePosition |-> 0, readPosition |-> 0]

NewQRingBuffer(byteSize) ==
    [bufferSize |-> byteSize, writePosition |-> 0, readPosition |-> 0]

\* bytes-available-to-read = (W - R) mod C
BytesToRead(b) == (b.writePosition - b.readPosition) % b.bufferSize

\* bytes-available-to-write: one byte short of the rest, so that a full
\* buffer differs from an empty one.
BytesToWrite(b) ==
    IF b.writePosition < b.readPosition
    THEN b.readPosition - b.writePosition - 1
    ELSE b.bufferSize - b.writePosition + b.readPosition - 1

\* writePointer(bytesFree, freeSpaceContiguous): the bytes that can be
\* written at the write position without wrapping.
writePointer(b) ==
    IF b.writePosition < b.readPosition
    THEN b.readPosition - b.writePosition - 1
    ELSE b.bufferSize - b.writePosition - (IF b.readPosition = 0 THEN 1 ELSE 0)

\* readPointer(bytesAvailable): the bytes that can be read at the read
\* position without wrapping.
readPointer(b) ==
    IF b.writePosition >= b.readPosition
    THEN b.writePosition - b.readPosition
    ELSE b.bufferSize - b.readPosition

advanceWritePointer(b, bytes) ==
    [b EXCEPT !.writePosition = (@ + bytes) % b.bufferSize]

advanceReadPointer(b, bytes) ==
    [b EXCEPT !.readPosition = (@ + bytes) % b.bufferSize]

(* ------------------------------ state --------------------------------- *)
VARIABLES
    \* JACKAudioStream
    streamState,                  \* "constructed", "started", "failed", "deleted", "stopped"
    clientOpen,                   \* the JACK client delivers callbacks
    processor,                    \* processor != NULL
    audioLatencyFrames,
    configuredAudioLatencyFrames,
    midiLatencyFrames,
    jackBufferSize,               \* the buffer size the JACK client reported last
    streamBuffer,                 \* JACKAudioStream::buffer != NULL (synchronous rendering)
    \* JACKAudioProcessor
    buffer,                       \* the ring buffer `buffer` points to
    bufferFreed,                  \* `buffer` was deleted and not yet reassigned
    bufferSizeFrames,             \* the size the ring buffer was allocated for
    stopProcessing,
    bufferDataRetrievals,         \* QSemaphore: available()
    bufferSizeUpdateLatch,        \* QSemaphore: available()
    \* JACKAudioProcessor::run (the processor thread)
    ppc, currentRetrievals, pFramesToRender,
    \* JACKAudioStream::renderStreams (the JACK process thread)
    jpc, totalFrameCount, framesLeft, jFramesToRender, out,
    renderedFramesCount,          \* counted from the entry of the running callback
    \* JACKAudioProcessor::setBufferSize (the JACK buffer size callback)
    kpc, kBufferSizeFrames,
    \* JACKAudioStream::stop
    spc,
    \* history variables
    releasedSinceSnapshot,        \* a release of bufferDataRetrievals after line 48
    framesAtEntry,                \* frames readable at the first getAvailableChunk
    writePointerFreed,            \* the processor's write pointer is into a freed buffer
    readPointerFreed,             \* the callback's read pointer is into a freed buffer
    producerUsedFreed,            \* the processor used a freed buffer
    consumerUsedFreed,            \* the running callback used a freed buffer
    stopFoundBlocked,             \* stop() began with the processor blocked at line 61
    pauseAnswered,                \* release(2) at line 118 came after the release at line 53
    nextFrame,                    \* the number of the next frame rendered at line 63; 0: not numbered
    ringData,                     \* the frame number each slot of the ring buffer holds
    committedFrames,              \* the frames advanceWritePointer has committed
    delivered,                    \* the numbers of the frames copied to the output
    \* SynthRoute
    state,                        \* SynthRouteState
    audioStream,                  \* audioStream != NULL
    synthOpen,                    \* the synthesizer is open
    lastResult,                   \* what the last open() or close() returned
    midiQueue,                    \* the pending events of each MIDI session
    pushCount,                    \* the events pushed so far (arrival order)
    renderTime,                   \* the time the next render pass starts at
    dispatched,                   \* the events the last render pass sent to the synthesizer
    midiSessions,                 \* the registry of live MIDI sessions
    exclusiveSessions,            \* the sessions that hold exclusive access
    multiMidiMode,
    midiLog                       \* removal signals and fast-path dispatches, in order

streamVars == <<streamState, clientOpen, processor, audioLatencyFrames,
                configuredAudioLatencyFrames, midiLatencyFrames, jackBufferSize,
                streamBuffer>>
bufVars == <<buffer, bufferFreed, bufferSizeFrames>>
semVars == <<bufferDataRetrievals, bufferSizeUpdateLatch>>
prodVars == <<ppc, currentRetrievals, pFramesToRender>>
consVars == <<jpc, totalFrameCount, framesLeft, jFramesToRender, out, framesAtEntry,
              renderedFramesCount>>
coordVars == <<kpc, kBufferSizeFrames, pauseAnswered>>
freedVars == <<writePointerFreed, readPointerFreed, producerUsedFreed, consumerUsedFreed>>
routeVars == <<state, audioStream, synthOpen, lastResult,
               midiQueue, pushCount, renderTime, dispatched>>
frameVars == <<nextFrame, ringData, committedFrames, delivered>>
jackVars == <<streamVars, bufVars, semVars, prodVars, consVars, coordVars,
              freedVars, stopProcessing, spc, releasedSinceSnapshot, stopFoundBlocked,
              frameVars>>
midiModeVars == <<midiSessions, exclusiveSessions, multiMidiMode, midiLog>>
synthRouteVars == <<routeVars, midiModeVars>>
vars == <<jackVars, synthRouteVars>>

(* ------------------- JACKAudioStream: construction -------------------- *)
\* The MIDI latency of the settings the stream is constructed with.
SettingsMidiLatencyFrames == 1

JackInit ==
    /\ streamState = "constructed"
    /\ clientOpen = FALSE
    /\ processor = FALSE
    /\ configuredAudioLatencyFrames \in 1..MaxLatency
    /\ audioLatencyFrames = configuredAudioLatencyFrames
    /\ midiLatencyFrames = SettingsMidiLatencyFrames
    /\ jackBufferSize = 0
    /\ streamBuffer = FALSE
    /\ buffer = NoBuffer
    /\ bufferFreed = FALSE
    /\ bufferSizeFrames = 0
    /\ stopProcessing = FALSE
    /\ bufferDataRetrievals = 0
    /\ bufferSizeUpdateLatch = 1
    /\ ppc = "notStarted"
    /\ currentRetrievals = 0
    /\ pFramesToRender = 0
    /\ jpc = "idle"
    /\ totalFrameCount = 0
    /\ framesLeft = 0
    /\ jFramesToRender = 0
    /\ out = <<>>
    /\ renderedFramesCount = 0
    /\ framesAtEntry = -1
    /\ kpc = "idle"
    /\ kBufferSizeFrames = 0
    /\ pauseAnswered = FALSE
    /\ spc = "idle"
    /\ releasedSinceSnapshot = FALSE
    /\ writePointerFreed = FALSE
    /\ readPointerFreed = FALSE
    /\ producerUsedFreed = FALSE
    /\ consumerUsedFreed = FALSE
    /\ stopFoundBlocked = FALSE

(* -------------------- JACKAudioProcessor helpers ---------------------- *)
\* reallocateBuffer: the byte size of the new ring buffer.
RingCapacity_TwoSpareFrames(frames) == (frames + 2) * FRAME_BYTE_SIZE
RingCapacity(frames) == (frames + 1) * FRAME_BYTE_SIZE

\* run, line 61: the number of resources the processor thread acquires.
AcquireCount_Snapshot(retrievals) == retrievals
AcquireCount(retrievals) == retrievals + 1

\* run, lines 58-59: the frames that can be rendered at the write pointer.
FramesToRender(b) == writePointer(b) \div FRAME_BYTE_SIZE

\* getAvailableChunk, lines 93-94: the frames that can be read.
FramesAvailable(b) == readPointer(b) \div FRAME_BYTE_SIZE

\* Frames are numbered in the order line 63 renders them.
Numbered == nextFrame > 0

\* The slots of a new ring buffer; no frame has been written to them.
BlankRing(byteSize) == [i \in 1..(byteSize \div FRAME_BYTE_SIZE) |-> 0]

\* The slot a byte position of the ring buffer lies in.
SlotAt(position) == position \div FRAME_BYTE_SIZE + 1

\* Line 63: render writes `frames` frames at the write position.
WriteFrames(ring, position, frames, first) ==
    [i \in DOMAIN ring |->
        IF i >= SlotAt(position) /\ i < SlotAt(position) + frames
        THEN first + (i - SlotAt(position))
        ELSE ring[i]]

\* Lines 239-242: the frames copied from the read position.
ReadFrames(ring, position, frames) ==
    [i \in 1..frames |->
        IF SlotAt(position) + i - 1 \in DOMAIN ring
        THEN ring[SlotAt(position) + i - 1]
        ELSE 0]

\* The processor thread holds a snapshot of line 48 that line 61 may still use.
SnapshotInUse == ppc \in {"l49", "l50", "l53", "l54", "l58", "l61"}

\* Releases of bufferDataRetrievals that the running calls will still make.
PendingReleases ==
    (IF processor /\ jpc # "idle" THEN framesLeft ELSE 0)
    + (IF kpc \in {"l109", "l111"} THEN 1 ELSE 0)
    + (IF processor /\ spc \in {"idle", "l86", "l87"} THEN 1 ELSE 0)

(* ----------------------- JACKAudioStream::start ----------------------- *)
\* The configured MIDI latency, lines 170-180.
StartMidiLatency(midiSessionBound, autoLatencyMode, audioLatency, jackBufferSizeFrames) ==
    IF ~midiSessionBound
    THEN IF autoLatencyMode
         THEN audioLatency + MINIMUM_JACK_BUFFER_COUNT * jackBufferSizeFrames
         ELSE midiLatencyFrames
    ELSE 0

Start(midiSessionBound, realtimeProcessing, clientOpens, autoLatencyMode, jackBufferSizeFrames) ==
    /\ streamState = "constructed"
    /\ IF ~clientOpens
       THEN /\ streamState' = "failed"
            /\ UNCHANGED <<clientOpen, processor, audioLatencyFrames,
                           configuredAudioLatencyFrames, midiLatencyFrames, jackBufferSize,
                           streamBuffer,
                           bufVars, ppc, ringData>>
       ELSE /\ streamState' = "started"
            /\ clientOpen' = TRUE
            /\ jackBufferSize' = jackBufferSizeFrames
            /\ UNCHANGED configuredAudioLatencyFrames
            /\ IF ~midiSessionBound /\ realtimeProcessing
               THEN /\ audioLatencyFrames' = Max(audioLatencyFrames, jackBufferSizeFrames)
                    /\ processor' = TRUE
                    /\ buffer' = NewQRingBuffer(RingCapacity(audioLatencyFrames'))
                    /\ bufferSizeFrames' = audioLatencyFrames'
                    /\ bufferFreed' = FALSE
                    /\ ppc' = "l48"
                    /\ ringData' = IF Numbered THEN BlankRing(buffer'.bufferSize)
                                   ELSE ringData
                    /\ UNCHANGED streamBuffer
               ELSE /\ audioLatencyFrames' = 0
                    /\ streamBuffer' = TRUE
                    /\ UNCHANGED <<processor, bufVars, ppc, ringData>>
            /\ midiLatencyFrames' = StartMidiLatency(midiSessionBound, autoLatencyMode,
                                        audioLatencyFrames', jackBufferSizeFrames)
    /\ UNCHANGED <<semVars, currentRetrievals, pFramesToRender, consVars, coordVars,
                   freedVars, stopProcessing, spc, releasedSinceSnapshot,
                   stopFoundBlocked, nextFrame, committedFrames, delivered,
                   synthRouteVars>>

\* JACKAudioDefaultDevice::startAudioStream, lines 259-261: start() failed,
\* the stream is deleted and no stream is returned.
StartAudioStreamDelete_ReturnStream ==
    /\ streamState = "failed"
    /\ streamState' = "started"
    /\ UNCHANGED <<clientOpen, processor, audioLatencyFrames, configuredAudioLatencyFrames,
                   midiLatencyFrames, jackBufferSize, streamBuffer, bufVars, semVars,
                   prodVars, consVars, coordVars, freedVars, stopProcessing, spc,
                   releasedSinceSnapshot, stopFoundBlocked, frameVars, synthRouteVars>>

StartAudioStreamDelete ==
    /\ streamState = "failed"
    /\ streamState' = "deleted"
    /\ UNCHANGED <<clientOpen, processor, audioLatencyFrames, configuredAudioLatencyFrames,
                   midiLatencyFrames, jackBufferSize, streamBuffer, bufVars, semVars,
                   prodVars, consVars, coordVars, freedVars, stopProcessing, spc,
                   releasedSinceSnapshot, stopFoundBlocked, frameVars, synthRouteVars>>

(* ----------------------- JACKAudioProcessor::run ---------------------- *)
\* Line 48: int currentRetrievals = bufferDataRetrievals.available();
RunSnapshot ==
    /\ ppc = "l48"
    /\ currentRetrievals' = bufferDataRetrievals
    /\ releasedSinceSnapshot' = FALSE
    /\ ppc' = "l49"
    /\ UNCHANGED <<streamVars, bufVars, semVars, pFramesToRender, consVars, coordVars,
                   freedVars, stopProcessing, spc, stopFoundBlocked, frameVars, synthRouteVars>>

\* Line 49: if (stopProcessing) return;
RunCheckStop ==
    /\ ppc = "l49"
    /\ IF stopProcessing
       THEN /\ ppc' = "done"
            /\ currentRetrievals' = 0
            /\ releasedSinceSnapshot' = FALSE
       ELSE /\ ppc' = "l50"
            /\ UNCHANGED <<currentRetrievals, releasedSinceSnapshot>>
    /\ UNCHANGED <<streamVars, bufVars, semVars, pFramesToRender, consVars, coordVars,
                   freedVars, stopProcessing, spc, stopFoundBlocked, frameVars, synthRouteVars>>

\* Line 50: if (bufferSizeUpdateLatch.available() == 0)
RunCheckLatch ==
    /\ ppc = "l50"
    /\ ppc' = IF bufferSizeUpdateLatch = 0 THEN "l53" ELSE "l58"
    /\ UNCHANGED <<streamVars, bufVars, semVars, currentRetrievals, pFramesToRender,
                   consVars, coordVars, freedVars, stopProcessing, spc,
                   releasedSinceSnapshot, stopFoundBlocked, frameVars, synthRouteVars>>

\* Line 53: bufferSizeUpdateLatch.release();
RunLatchRelease ==
    /\ ppc = "l53"
    /\ bufferSizeUpdateLatch' = bufferSizeUpdateLatch + 1
    /\ ppc' = "l54"
    /\ pauseAnswered' = FALSE
    /\ UNCHANGED <<streamVars, bufVars, bufferDataRetrievals, currentRetrievals,
                   pFramesToRender, consVars, kpc, kBufferSizeFrames, freedVars, stopProcessing, spc,
                   releasedSinceSnapshot, stopFoundBlocked, frameVars, synthRouteVars>>

\* Line 54: bufferSizeUpdateLatch.acquire();
RunLatchAcquire ==
    /\ ppc = "l54"
    /\ bufferSizeUpdateLatch >= 1
    /\ bufferSizeUpdateLatch' = bufferSizeUpdateLatch - 1
    /\ ppc' = "l58"
    /\ pauseAnswered' = FALSE
    /\ UNCHANGED <<streamVars, bufVars, bufferDataRetrievals, currentRetrievals,
                   pFramesToRender, consVars, kpc, kBufferSizeFrames, freedVars, stopProcessing, spc,
                   releasedSinceSnapshot, stopFoundBlocked, frameVars, synthRouteVars>>

\* Lines 58-60: buffer->writePointer(...) and the test of framesToRender.
RunWritePointer ==
    /\ ppc = "l58"
    /\ pFramesToRender' = FramesToRender(buffer)
    /\ ppc' = IF pFramesToRender' = 0 THEN "l61" ELSE "l63"
    /\ releasedSinceSnapshot' = (pFramesToRender' = 0 /\ releasedSinceSnapshot)
    /\ writePointerFreed' = FALSE
    /\ producerUsedFreed' = (producerUsedFreed \/ bufferFreed)
    /\ UNCHANGED <<streamVars, bufVars, semVars, currentRetrievals, consVars, coordVars,
                   readPointerFreed, consumerUsedFreed, stopProcessing, spc,
                   stopFoundBlocked, frameVars, synthRouteVars>>

\* Line 61: bufferDataRetrievals.acquire(currentRetrievals + 1);
RunAcquire ==
    /\ ppc = "l61"
    /\ bufferDataRetrievals >= AcquireCount(currentRetrievals)
    /\ bufferDataRetrievals' = bufferDataRetrievals - AcquireCount(currentRetrievals)
    /\ ppc' = "l48"
    /\ currentRetrievals' = 0
    /\ pFramesToRender' = 0
    /\ releasedSinceSnapshot' = FALSE
    /\ UNCHANGED <<streamVars, bufVars, bufferSizeUpdateLatch, consVars, coordVars,
                   freedVars, stopProcessing, spc, stopFoundBlocked, frameVars, synthRouteVars>>

\* Line 63: synthRoute.render(writePointer, framesToRender);
RunRender ==
    /\ ppc = "l63"
    /\ Numbered => nextFrame + pFramesToRender - 1 <= MaxFrames
    /\ producerUsedFreed' = (producerUsedFreed \/ writePointerFreed)
    /\ ppc' = "l64"
    /\ IF Numbered
       THEN /\ ringData' = WriteFrames(ringData, buffer.writePosition, pFramesToRender,
                                       nextFrame)
            /\ nextFrame' = nextFrame + pFramesToRender
       ELSE UNCHANGED <<ringData, nextFrame>>
    /\ UNCHANGED <<streamVars, bufVars, semVars, currentRetrievals, pFramesToRender,
                   consVars, coordVars, writePointerFreed, readPointerFreed,
                   consumerUsedFreed, stopProcessing, spc, releasedSinceSnapshot,
                   stopFoundBlocked, committedFrames, delivered, synthRouteVars>>

\* Line 64: buffer->advanceWritePointer(framesToRender * FRAME_BYTE_SIZE);
RunAdvance ==
    /\ ppc = "l64"
    /\ IF bufferFreed
       THEN UNCHANGED buffer
       ELSE buffer' = advanceWritePointer(buffer, pFramesToRender * FRAME_BYTE_SIZE)
    /\ producerUsedFreed' = (producerUsedFreed \/ bufferFreed \/ writePointerFreed)
    /\ writePointerFreed' = FALSE
    /\ ppc' = "l48"
    /\ currentRetrievals' = 0
    /\ pFramesToRender' = 0
    /\ committedFrames' = IF Numbered THEN committedFrames + pFramesToRender
                          ELSE committedFrames
    /\ UNCHANGED <<streamVars, bufferFreed, bufferSizeFrames, semVars, consVars, coordVars,
                   readPointerFreed, consumerUsedFreed, stopProcessing, spc,
                   releasedSinceSnapshot, stopFoundBlocked, nextFrame, ringData, delivered,
                   synthRouteVars>>

(* ------------------- JACKAudioStream::renderStreams ------------------- *)
Frames(n, kind) == [i \in 1..n |-> kind]

\* The process callback taking the rendering branch (line 235) whether or
\* not a processor exists.
RenderStreamsBegin_AlwaysRenders(frameCount) ==
    /\ streamState = "started"
    /\ clientOpen
    /\ jpc = "idle"
    /\ processor => bufferDataRetrievals + PendingReleases + frameCount <= MaxRetrievals
    /\ totalFrameCount' = frameCount
    /\ framesLeft' = frameCount
    /\ jFramesToRender' = 0
    /\ out' = <<>>
    /\ renderedFramesCount' = 0
    /\ framesAtEntry' = -1
    /\ jpc' = "l236"
    /\ UNCHANGED <<streamVars, bufVars, semVars, prodVars, coordVars, freedVars,
                   stopProcessing, spc, releasedSinceSnapshot, stopFoundBlocked, frameVars, synthRouteVars>>

\* The JACK server invokes the process callback for totalFrameCount frames.
RenderStreamsBegin(frameCount) ==
    /\ streamState = "started"
    /\ clientOpen
    /\ jpc = "idle"
    /\ processor => bufferDataRetrievals + PendingReleases + frameCount <= MaxRetrievals
    /\ totalFrameCount' = frameCount
    /\ framesLeft' = frameCount
    /\ jFramesToRender' = 0
    /\ out' = <<>>
    /\ renderedFramesCount' = 0
    /\ framesAtEntry' = -1
    /\ jpc' = IF processor THEN "l226" ELSE "l236"
    /\ UNCHANGED <<streamVars, bufVars, semVars, prodVars, coordVars, freedVars,
                   stopProcessing, spc, releasedSinceSnapshot, stopFoundBlocked, frameVars, synthRouteVars>>

\* Lines 225-227: getAvailableChunk.  A read of the positions of a deleted
\* ring buffer gives any count.
RenderStreamsGetChunk ==
    /\ jpc = "l226"
    /\ \E framesAvailable \in
            (IF bufferFreed THEN 0..framesLeft ELSE {FramesAvailable(buffer)}) :
          /\ jFramesToRender' = Min(framesLeft, framesAvailable)
          /\ framesAtEntry' = IF framesAtEntry = -1 THEN framesAvailable ELSE framesAtEntry
    /\ jpc' = IF jFramesToRender' = 0 THEN "l228" ELSE "l239"
    /\ readPointerFreed' = bufferFreed
    /\ consumerUsedFreed' = (consumerUsedFreed \/ bufferFreed)
    /\ UNCHANGED <<streamVars, bufVars, semVars, prodVars, coordVars, totalFrameCount,
                   renderedFramesCount,
                   framesLeft, out, writePointerFreed, producerUsedFreed, stopProcessing,
                   spc, releasedSinceSnapshot, stopFoundBlocked, frameVars, synthRouteVars>>

\* Lines 228-231: no frame is available; the rest of the output is zeroed.
RenderStreamsSilence_ChunkOnly ==
    /\ jpc = "l228"
    /\ out' = out \o Frames(jFramesToRender, "silence")
    /\ jpc' = "l232"
    /\ UNCHANGED <<streamVars, bufVars, semVars, prodVars, coordVars, totalFrameCount,
                   renderedFramesCount,
                   framesLeft, jFramesToRender, framesAtEntry, freedVars, stopProcessing,
                   spc, releasedSinceSnapshot, stopFoundBlocked, frameVars, synthRouteVars>>

RenderStreamsSilence ==
    /\ jpc = "l228"
    /\ out' = out \o Frames(framesLeft, "silence")
    /\ jpc' = "l232"
    /\ UNCHANGED <<streamVars, bufVars, semVars, prodVars, coordVars, totalFrameCount,
                   renderedFramesCount,
                   framesLeft, jFramesToRender, framesAtEntry, freedVars, stopProcessing,
                   spc, releasedSinceSnapshot, stopFoundBlocked, frameVars, synthRouteVars>>

\* Lines 239-242: the chunk is copied from the read pointer to the output.
RenderStreamsCopy ==
    /\ jpc = "l239"
    /\ out' = out \o Frames(jFramesToRender, "frame")
    /\ consumerUsedFreed' = (consumerUsedFreed \/ readPointerFreed)
    /\ jpc' = "l243"
    /\ delivered' = IF Numbered
                    THEN delivered \o ReadFrames(ringData, buffer.readPosition,
                                                 jFramesToRender)
                    ELSE delivered
    /\ UNCHANGED <<streamVars, bufVars, semVars, prodVars, coordVars, totalFrameCount,
                   renderedFramesCount,
                   framesLeft, jFramesToRender, framesAtEntry, writePointerFreed,
                   readPointerFreed, producerUsedFreed, stopProcessing, spc,
                   releasedSinceSnapshot, stopFoundBlocked, nextFrame, ringData,
                   committedFrames, synthRouteVars>>

\* Line 100 advancing the read position by the frame count taken as bytes.
MarkChunkProcessedAdvance_Bytes ==
    /\ jpc = "l243"
    /\ IF bufferFreed
       THEN UNCHANGED buffer
       ELSE buffer' = advanceReadPointer(buffer, jFramesToRender)
    /\ consumerUsedFreed' = (consumerUsedFreed \/ bufferFreed)
    /\ readPointerFreed' = FALSE
    /\ jpc' = "l104"
    /\ UNCHANGED <<streamVars, bufferFreed, bufferSizeFrames, semVars, prodVars, coordVars,
                   totalFrameCount, renderedFramesCount, framesLeft, jFramesToRender, out,
                   framesAtEntry,
                   writePointerFreed, producerUsedFreed, stopProcessing, spc,
                   releasedSinceSnapshot, stopFoundBlocked, frameVars, synthRouteVars>>

\* Lines 243, 100: markChunkProcessed advances the read position of the ring
\* buffer the member `buffer` points to at that time.
MarkChunkProcessedAdvance ==
    /\ jpc = "l243"
    /\ IF bufferFreed
       THEN UNCHANGED buffer
       ELSE buffer' = advanceReadPointer(buffer, jFramesToRender * FRAME_BYTE_SIZE)
    /\ consumerUsedFreed' = (consumerUsedFreed \/ bufferFreed)
    /\ readPointerFreed' = FALSE
    /\ jpc' = "l104"
    /\ UNCHANGED <<streamVars, bufferFreed, bufferSizeFrames, semVars, prodVars, coordVars,
                   totalFrameCount, renderedFramesCount, framesLeft, jFramesToRender, out,
                   framesAtEntry,
                   writePointerFreed, producerUsedFreed, stopProcessing, spc,
                   releasedSinceSnapshot, stopFoundBlocked, frameVars, synthRouteVars>>

\* Lines 104, 244: bufferDataRetrievals.release(); framesLeft -= framesToRender;
\* and, when the loop ends, line 246: renderedFramesCount += totalFrameCount;
MarkChunkProcessedRelease ==
    /\ jpc = "l104"
    /\ bufferDataRetrievals' = bufferDataRetrievals + 1
    /\ releasedSinceSnapshot' = SnapshotInUse
    /\ framesLeft' = framesLeft - jFramesToRender
    /\ jFramesToRender' = 0
    /\ jpc' = IF framesLeft' > 0 THEN "l226" ELSE "l247"
    /\ renderedFramesCount' = IF framesLeft' > 0 THEN renderedFramesCount
                              ELSE renderedFramesCount + totalFrameCount
    /\ UNCHANGED <<streamVars, bufVars, bufferSizeUpdateLatch, prodVars, coordVars,
                   totalFrameCount, out, framesAtEntry, freedVars,
                   stopProcessing, spc, stopFoundBlocked, frameVars, synthRouteVars>>

\* Lines 235-242, 244: without a processor the callback renders by itself;
\* when the loop ends, line 246: renderedFramesCount += totalFrameCount;
RenderStreamsSynchronous ==
    /\ jpc = "l236"
    /\ out' = out \o Frames(Min(framesLeft, MAX_SAMPLES_PER_RUN), "frame")
    /\ framesLeft' = framesLeft - Min(framesLeft, MAX_SAMPLES_PER_RUN)
    /\ jpc' = IF framesLeft' > 0 THEN "l236" ELSE "l247"
    /\ renderedFramesCount' = IF framesLeft' > 0 THEN renderedFramesCount
                              ELSE renderedFramesCount + totalFrameCount
    /\ UNCHANGED <<streamVars, bufVars, semVars, prodVars, coordVars, totalFrameCount,
                   jFramesToRender, framesAtEntry, freedVars, stopProcessing, spc,
                   releasedSinceSnapshot, stopFoundBlocked, frameVars, synthRouteVars>>

\* Lines 232 and 247: the callback returns, from the underrun (line 232) or
\* after line 246.
RenderStreamsReturn ==
    /\ jpc \in {"l232", "l247"}
    /\ jpc' = "idle"
    /\ totalFrameCount' = 0
    /\ framesLeft' = 0
    /\ jFramesToRender' = 0
    /\ out' = <<>>
    /\ renderedFramesCount' = 0
    /\ framesAtEntry' = -1
    /\ consumerUsedFreed' = FALSE
    /\ UNCHANGED <<streamVars, bufVars, semVars, prodVars, coordVars,
                   writePointerFreed, readPointerFreed, producerUsedFreed,
                   stopProcessing, spc, releasedSinceSnapshot, stopFoundBlocked, frameVars, synthRouteVars>>

\* A step of the process callback that is under way.
RenderStreamsStep ==
    \/ RenderStreamsGetChunk
    \/ RenderStreamsSilence
    \/ RenderStreamsCopy
    \/ MarkChunkProcessedAdvance
    \/ MarkChunkProcessedRelease
    \/ RenderStreamsSynchronous
    \/ RenderStreamsReturn

(* ---- JACKAudioStream::onJACKBufferSizeChange, setBufferSize ---------- *)
\* Line 199: the audio latency after the JACK buffer size has changed.
ResizedLatency_NativeOnly(newBufferSize, configured) == newBufferSize
ResizedLatency(newBufferSize, configured) == Max(newBufferSize, configured)

\* Lines 194-200 recomputing the MIDI latency as start() does in auto
\* latency mode.
OnJACKBufferSizeChange_MidiLatency(newBufferSize) ==
    /\ streamState = "started"
    /\ clientOpen
    /\ kpc = "idle"
    /\ jackBufferSize' = newBufferSize
    /\ IF ~processor
       THEN UNCHANGED <<audioLatencyFrames, midiLatencyFrames, coordVars>>
       ELSE /\ bufferDataRetrievals + PendingReleases + 1 <= MaxRetrievals
            /\ audioLatencyFrames' = ResizedLatency(newBufferSize, configuredAudioLatencyFrames)
            /\ midiLatencyFrames' =
                   audioLatencyFrames' + MINIMUM_JACK_BUFFER_COUNT * newBufferSize
            /\ kBufferSizeFrames' = audioLatencyFrames'
            /\ kpc' = "l109"
            /\ UNCHANGED pauseAnswered
    /\ UNCHANGED <<streamState, clientOpen, processor, configuredAudioLatencyFrames,
                   streamBuffer, bufVars, semVars, prodVars, consVars, freedVars,
                   stopProcessing, spc, releasedSinceSnapshot, stopFoundBlocked, frameVars,
                   synthRouteVars>>

\* Lines 194-200.
OnJACKBufferSizeChange(newBufferSize) ==
    /\ streamState = "started"
    /\ clientOpen
    /\ kpc = "idle"
    /\ jackBufferSize' = newBufferSize
    /\ IF ~processor
       THEN UNCHANGED <<audioLatencyFrames, coordVars>>
       ELSE /\ bufferDataRetrievals + PendingReleases + 1 <= MaxRetrievals
            /\ audioLatencyFrames' = ResizedLatency(newBufferSize, configuredAudioLatencyFrames)
            /\ kBufferSizeFrames' = audioLatencyFrames'
            /\ kpc' = "l109"
            /\ UNCHANGED pauseAnswered
    /\ UNCHANGED <<streamState, clientOpen, processor, configuredAudioLatencyFrames,
                   midiLatencyFrames, streamBuffer, bufVars, semVars, prodVars, consVars, freedVars,
                   stopProcessing, spc, releasedSinceSnapshot, stopFoundBlocked, frameVars, synthRouteVars>>

\* Line 109: bufferSizeUpdateLatch.acquire();
SetBufferSizeAcquireFirst ==
    /\ kpc = "l109"
    /\ bufferSizeUpdateLatch >= 1
    /\ bufferSizeUpdateLatch' = bufferSizeUpdateLatch - 1
    /\ kpc' = "l111"
    /\ UNCHANGED <<streamVars, bufVars, bufferDataRetrievals, prodVars, consVars,
                   kBufferSizeFrames, pauseAnswered, freedVars, stopProcessing, spc,
                   releasedSinceSnapshot, stopFoundBlocked, frameVars, synthRouteVars>>

\* Line 111: bufferDataRetrievals.release();
SetBufferSizeRelease ==
    /\ kpc = "l111"
    /\ bufferDataRetrievals' = bufferDataRetrievals + 1
    /\ releasedSinceSnapshot' = SnapshotInUse
    /\ kpc' = "l113"
    /\ UNCHANGED <<streamVars, bufVars, bufferSizeUpdateLatch, prodVars, consVars,
                   kBufferSizeFrames, pauseAnswered, freedVars, stopProcessing, spc, stopFoundBlocked,
                   frameVars, synthRouteVars>>

\* Line 113: bufferSizeUpdateLatch.acquire();
SetBufferSizeAcquireSecond_NoWait ==
    /\ kpc = "l113"
    /\ kpc' = "l122"
    /\ UNCHANGED <<streamVars, bufVars, semVars, prodVars, consVars,
                   kBufferSizeFrames, pauseAnswered, freedVars, stopProcessing, spc,
                   releasedSinceSnapshot, stopFoundBlocked, frameVars, synthRouteVars>>

SetBufferSizeAcquireSecond ==
    /\ kpc = "l113"
    /\ bufferSizeUpdateLatch >= 1
    /\ bufferSizeUpdateLatch' = bufferSizeUpdateLatch - 1
    /\ kpc' = "l122"
    /\ UNCHANGED <<streamVars, bufVars, bufferDataRetrievals, prodVars, consVars,
                   kBufferSizeFrames, pauseAnswered, freedVars, stopProcessing, spc,
                   releasedSinceSnapshot, stopFoundBlocked, frameVars, synthRouteVars>>

\* Line 122: delete buffer;  the pointers the other threads hold now dangle.
ReallocateBufferDelete ==
    /\ kpc = "l122"
    /\ bufferFreed' = TRUE
    /\ writePointerFreed' = (writePointerFreed \/ ppc \in {"l63", "l64"})
    /\ readPointerFreed' = (readPointerFreed \/ jpc \in {"l239", "l243"})
    /\ kpc' = "l125"
    /\ UNCHANGED <<streamVars, buffer, bufferSizeFrames, semVars, prodVars, consVars,
                   kBufferSizeFrames, pauseAnswered, producerUsedFreed, consumerUsedFreed,
                   stopProcessing, spc, releasedSinceSnapshot, stopFoundBlocked, frameVars, synthRouteVars>>

\* Line 125: buffer = new Utility::QRingBuffer((bufferSizeFrames + 1) * FRAME_BYTE_SIZE);
ReallocateBufferNew ==
    /\ kpc = "l125"
    /\ buffer' = NewQRingBuffer(RingCapacity(kBufferSizeFrames))
    /\ bufferSizeFrames' = kBufferSizeFrames
    /\ bufferFreed' = FALSE
    /\ kpc' = "l118"
    /\ ringData' = IF Numbered THEN BlankRing(buffer'.bufferSize) ELSE ringData
    /\ UNCHANGED <<streamVars, semVars, prodVars, consVars, kBufferSizeFrames, pauseAnswered,
                   freedVars, stopProcessing, spc, releasedSinceSnapshot, stopFoundBlocked,
                   nextFrame, committedFrames, delivered, synthRouteVars>>

\* Line 118 releasing one resource only.
SetBufferSizeReleaseBoth_One ==
    /\ kpc = "l118"
    /\ bufferSizeUpdateLatch' = bufferSizeUpdateLatch + 1
    /\ kpc' = "idle"
    /\ kBufferSizeFrames' = 0
    /\ pauseAnswered' = (ppc = "l54")
    /\ UNCHANGED <<streamVars, bufVars, bufferDataRetrievals, prodVars, consVars,
                   freedVars, stopProcessing, spc, releasedSinceSnapshot,
                   stopFoundBlocked, frameVars, synthRouteVars>>

\* Line 118: bufferSizeUpdateLatch.release(2);
SetBufferSizeReleaseBoth ==
    /\ kpc = "l118"
    /\ bufferSizeUpdateLatch' = bufferSizeUpdateLatch + 2
    /\ kpc' = "idle"
    /\ kBufferSizeFrames' = 0
    /\ pauseAnswered' = (ppc = "l54")
    /\ UNCHANGED <<streamVars, bufVars, bufferDataRetrievals, prodVars, consVars,
                   freedVars, stopProcessing, spc, releasedSinceSnapshot,
                   stopFoundBlocked, frameVars, synthRouteVars>>

(* ------------ JACKAudioStream::stop, JACKAudioProcessor::stop --------- *)
\* Lines 187-191: jackClient->close(); if (processor != NULL) processor->stop();
\* close() deactivates the JACK client: it returns once no callback is running,
\* and no callback is invoked after it.
StopCloseClient ==
    /\ streamState = "started"
    /\ spc = "idle"
    /\ jpc = "idle"
    /\ kpc = "idle"
    /\ clientOpen' = FALSE
    /\ spc' = IF processor THEN "l86" ELSE "returned"
    /\ streamState' = IF processor THEN streamState ELSE "stopped"
    /\ UNCHANGED <<processor, audioLatencyFrames, configuredAudioLatencyFrames,
                   midiLatencyFrames, jackBufferSize, streamBuffer, bufVars, semVars, prodVars, consVars,
                   coordVars, freedVars, stopProcessing, releasedSinceSnapshot,
                   stopFoundBlocked, frameVars, synthRouteVars>>

\* Line 86: stopProcessing = true;
ProcessorStopSetFlag ==
    /\ spc = "l86"
    /\ stopProcessing' = TRUE
    /\ stopFoundBlocked' = (ppc = "l61" /\ bufferDataRetrievals < AcquireCount(currentRetrievals))
    /\ spc' = "l87"
    /\ UNCHANGED <<streamVars, bufVars, semVars, prodVars, consVars, coordVars, freedVars,
                   releasedSinceSnapshot, frameVars, synthRouteVars>>

\* Line 87: bufferDataRetrievals.release();
ProcessorStopRelease_Missing ==
    /\ spc = "l87"
    /\ spc' = "l88"
    /\ UNCHANGED <<streamVars, bufVars, semVars, prodVars, consVars, coordVars, freedVars,
                   stopProcessing, releasedSinceSnapshot, stopFoundBlocked, frameVars, synthRouteVars>>

ProcessorStopRelease ==
    /\ spc = "l87"
    /\ bufferDataRetrievals' = bufferDataRetrievals + 1
    /\ releasedSinceSnapshot' = SnapshotInUse
    /\ spc' = "l88"
    /\ UNCHANGED <<streamVars, bufVars, bufferSizeUpdateLatch, prodVars, consVars,
                   coordVars, freedVars, stopProcessing, stopFoundBlocked, frameVars, synthRouteVars>>

\* Line 88: wait();  returns when run() has returned.
ProcessorStopWait ==
    /\ spc = "l88"
    /\ ppc = "done"
    /\ spc' = "returned"
    /\ streamState' = "stopped"
    /\ UNCHANGED <<clientOpen, processor, audioLatencyFrames, configuredAudioLatencyFrames,
                   midiLatencyFrames, jackBufferSize, streamBuffer, bufVars, semVars, prodVars, consVars,
                   coordVars, freedVars, stopProcessing, releasedSinceSnapshot,
                   stopFoundBlocked, frameVars, synthRouteVars>>

(* --------------------------- the JACK stream -------------------------- *)
ProcessorThread ==
    \/ RunSnapshot
    \/ RunCheckStop
    \/ RunCheckLatch
    \/ RunLatchRelease
    \/ RunLatchAcquire
    \/ RunWritePointer
    \/ RunAcquire
    \/ RunRender
    \/ RunAdvance

BufferSizeCallback ==
    \/ SetBufferSizeAcquireFirst
    \/ SetBufferSizeRelease
    \/ SetBufferSizeAcquireSecond
    \/ ReallocateBufferDelete
    \/ ReallocateBufferNew
    \/ SetBufferSizeReleaseBoth

StopCall ==
    \/ StopCloseClient
    \/ ProcessorStopSetFlag
    \/ ProcessorStopRelease
    \/ ProcessorStopWait

JackNext ==
    \/ \E midiSessionBound \in BOOLEAN, realtimeProcessing \in BOOLEAN,
          clientOpens \in BOOLEAN, autoLatencyMode \in BOOLEAN,
          jackBufferSizeFrames \in 1..MaxJackBuffer :
            Start(midiSessionBound, realtimeProcessing, clientOpens, autoLatencyMode,
                  jackBufferSizeFrames)
    \/ StartAudioStreamDelete
    \/ ProcessorThread
    \/ \E frameCount \in 1..MaxRequest : RenderStreamsBegin(frameCount)
    \/ RenderStreamsStep
    \/ \E newBufferSize \in 1..MaxJackBuffer : OnJACKBufferSizeChange(newBufferSize)
    \/ BufferSizeCallback
    \/ StopCall

(* ------------------------------ SynthRoute ---------------------------- *)
\* Bounds of the MIDI merge.
MaxEvents == 4
MaxRenderTime == 30
Sessions == {"A", "B"}
Timestamps == {0, 5, 10, 30}
PassLengths == {5, 25}

RouteInit ==
    /\ state = "CLOSED"
    /\ audioStream = FALSE
    /\ synthOpen = FALSE
    /\ lastResult = "none"
    /\ midiQueue = [s \in Sessions |-> <<>>]
    /\ pushCount = 0
    /\ renderTime = 0
    /\ dispatched = <<>>

\* The states in which open() and close() are accepted.
OpenAccepted_AnyButOpening(routeState) == routeState # "OPENING"
OpenAccepted(routeState) == routeState = "CLOSED"

CloseAccepted_AnyButClosing(routeState) == routeState # "CLOSING"
CloseAccepted(routeState) == routeState = "OPEN"

\* open(): CLOSED -> OPENING, or the call is rejected.
Open ==
    /\ IF OpenAccepted(state)
       THEN /\ state' = "OPENING"
            /\ UNCHANGED lastResult
       ELSE /\ lastResult' = "failure"
            /\ UNCHANGED state
    /\ UNCHANGED <<audioStream, synthOpen, midiQueue, pushCount, renderTime, dispatched,
                   jackVars, midiModeVars>>

\* open(), continued: the synthesizer and the audio stream are initialised;
\* OPENING -> OPEN, or back to CLOSED with no audio stream retained.
OpenComplete(streamStarts) ==
    /\ state = "OPENING"
    /\ IF streamStarts
       THEN /\ state' = "OPEN"
            /\ audioStream' = TRUE
            /\ synthOpen' = TRUE
            /\ lastResult' = "success"
       ELSE /\ state' = "CLOSED"
            /\ audioStream' = FALSE
            /\ synthOpen' = FALSE
            /\ lastResult' = "failure"
    /\ UNCHANGED <<midiQueue, pushCount, renderTime, dispatched, jackVars, midiModeVars>>

\* close(): OPEN -> CLOSING, or the call is rejected.
Close ==
    /\ IF CloseAccepted(state)
       THEN /\ state' = "CLOSING"
            /\ UNCHANGED lastResult
       ELSE /\ lastResult' = "failure"
            /\ UNCHANGED state
    /\ UNCHANGED <<audioStream, synthOpen, midiQueue, pushCount, renderTime, dispatched,
                   jackVars, midiModeVars>>

\* close(), continued: the stream and the synthesizer are torn down, the
\* queued events and the render time of the synthesizer with them;
\* CLOSING -> CLOSED.
CloseComplete ==
    /\ state = "CLOSING"
    /\ state' = "CLOSED"
    /\ audioStream' = FALSE
    /\ synthOpen' = FALSE
    /\ lastResult' = "success"
    /\ midiQueue' = [s \in Sessions |-> <<>>]
    /\ pushCount' = 0
    /\ renderTime' = 0
    /\ dispatched' = <<>>
    /\ UNCHANGED <<jackVars, midiModeVars>>

\* audioStreamFailed(): the driver is shutting down; the route is forced
\* towards CLOSED the way an external close request would.
audioStreamFailed ==
    /\ state = "OPEN"
    /\ state' = "CLOSING"
    /\ UNCHANGED <<audioStream, synthOpen, lastResult, midiQueue, pushCount, renderTime,
                   dispatched, jackVars, midiModeVars>>

\* pushMIDIShortMessage / pushMIDISysex: a session queues an event for the
\* open synthesizer; the timestamps of one session come from a monotonic clock.
LastTimestamp(queue) == IF queue = <<>> THEN 0 ELSE queue[Len(queue)].timestamp

pushMIDIShortMessage(session, timestamp) ==
    /\ state = "OPEN"
    /\ pushCount < MaxEvents
    /\ timestamp >= LastTimestamp(midiQueue[session])
    /\ pushCount' = pushCount + 1
    /\ midiQueue' = [midiQueue EXCEPT ![session] =
                        Append(@, [session |-> session, timestamp |-> timestamp,
                                   arrival |-> pushCount'])]
    /\ UNCHANGED <<state, audioStream, synthOpen, lastResult, renderTime, dispatched,
                   jackVars, midiModeVars>>

\* Event a goes before event b: by timestamp, ties by arrival.
Precedes(a, b) ==
    \/ a.timestamp < b.timestamp
    \/ a.timestamp = b.timestamp /\ a.arrival <= b.arrival

\* An event is due in a pass that ends at `limit`.
IsDue(event, limit) == event.timestamp <= limit

\* The sessions whose oldest pending event is due.
ReadySessions(queues, limit) ==
    {s \in Sessions : queues[s] # <<>> /\ IsDue(Head(queues[s]), limit)}

\* The session the merge takes the next event from.
NextSession_AnyReady(queues, limit) ==
    CHOOSE s \in ReadySessions(queues, limit) : TRUE
NextSession(queues, limit) ==
    CHOOSE s \in ReadySessions(queues, limit) :
        \A t \in ReadySessions(queues, limit) : Precedes(Head(queues[s]), Head(queues[t]))

\* mergeMidiStreams: the due events of all sessions in one sequence.
RECURSIVE mergeMidiStreams(_, _)
mergeMidiStreams(queues, limit) ==
    IF ReadySessions(queues, limit) = {}
    THEN <<>>
    ELSE LET s == NextSession(queues, limit)
         IN  <<Head(queues[s])>>
               \o mergeMidiStreams([queues EXCEPT ![s] = Tail(@)], limit)

\* What mergeMidiStreams leaves in the queues.
RECURSIVE Undispatched(_, _)
Undispatched(queues, limit) ==
    IF ReadySessions(queues, limit) = {}
    THEN queues
    ELSE LET s == NextSession(queues, limit)
         IN  Undispatched([queues EXCEPT ![s] = Tail(@)], limit)

\* render(buffer, length): a render pass of `length` from renderTime.
render(length) ==
    /\ state = "OPEN"
    /\ renderTime + length <= MaxRenderTime
    /\ dispatched' = mergeMidiStreams(midiQueue, renderTime + length)
    /\ midiQueue' = Undispatched(midiQueue, renderTime + length)
    /\ renderTime' = renderTime + length
    /\ UNCHANGED <<state, audioStream, synthOpen, lastResult, pushCount, jackVars, midiModeVars>>

(* ------------------- SynthRoute: MIDI routing modes ------------------- *)
\* Longest log of removal signals and fast-path dispatches followed.
MaxMidiLog == 3

MidiModeInit ==
    /\ midiSessions = {}
    /\ exclusiveSessions = {}
    /\ multiMidiMode = FALSE
    /\ midiLog = <<>>

\* The entries that record that the sessions of `lost` no longer hold
\* exclusive access.
RECURSIVE LogEntries(_, _)
LogEntries(kind, lost) ==
    IF lost = {}
    THEN <<>>
    ELSE LET s == CHOOSE t \in lost : TRUE
         IN  <<[kind |-> kind, session |-> s]>> \o LogEntries(kind, lost \ {s})

\* addMidiSession: the session joins the registry.
addMidiSession(midiSession) ==
    /\ midiSession \notin midiSessions
    /\ midiSessions' = midiSessions \cup {midiSession}
    /\ UNCHANGED <<exclusiveSessions, multiMidiMode, midiLog, routeVars, jackVars>>

\* removeMidiSession: the session leaves the registry, and exclusive access
\* with it.
removeMidiSession(midiSession) ==
    /\ midiSession \in midiSessions
    /\ Len(midiLog) < MaxMidiLog
    /\ midiSessions' = midiSessions \ {midiSession}
    /\ exclusiveSessions' = exclusiveSessions \ {midiSession}
    /\ midiLog' = midiLog \o LogEntries("left", exclusiveSessions \cap {midiSession})
    /\ UNCHANGED <<multiMidiMode, routeVars, jackVars>>

\* The sessions that keep exclusive access when it is enabled for a session.
ExclusiveKept_All(holders, midiSession) == holders
ExclusiveKept(holders, midiSession) == holders \cap {midiSession}

\* enableExclusiveMidiMode: any other holder is revoked and sent
\* exclusiveMidiSessionRemoved, then the session holds exclusive access.
enableExclusiveMidiMode(midiSession) ==
    /\ midiSession \in midiSessions
    /\ Len(midiLog) < MaxMidiLog
    /\ LET kept == ExclusiveKept(exclusiveSessions, midiSession)
       IN  /\ midiLog' = midiLog \o LogEntries("removed", exclusiveSessions \ kept)
           /\ exclusiveSessions' = kept \cup {midiSession}
    /\ multiMidiMode' = FALSE
    /\ UNCHANGED <<midiSessions, routeVars, jackVars>>

\* enableMultiMidiMode (with disableExclusiveMidiMode): the sessions are
\* merged again, no session holds exclusive access.
enableMultiMidiMode ==
    /\ Len(midiLog) < MaxMidiLog
    /\ multiMidiMode' = TRUE
    /\ exclusiveSessions' = {}
    /\ midiLog' = midiLog \o LogEntries("left", exclusiveSessions)
    /\ UNCHANGED <<midiSessions, routeVars, jackVars>>

\* playMIDIShortMessageNow / playMIDISysexNow: an event of the session that
\* holds exclusive access bypasses the merge.
playMIDIShortMessageNow(midiSession) ==
    /\ midiSession \in exclusiveSessions
    /\ Len(midiLog) < MaxMidiLog
    /\ midiLog' = Append(midiLog, [kind |-> "now", session |-> midiSession])
    /\ UNCHANGED <<midiSessions, exclusiveSessions, multiMidiMode, routeVars, jackVars>>

MidiModeNext ==
    \/ \E midiSession \in Sessions : addMidiSession(midiSession)
    \/ \E midiSession \in Sessions : removeMidiSession(midiSession)
    \/ \E midiSession \in Sessions : enableExclusiveMidiMode(midiSession)
    \/ enableMultiMidiMode
    \/ \E midiSession \in Sessions : playMIDIShortMessageNow(midiSession)

RouteNext ==
    \/ Open
    \/ \E streamStarts \in BOOLEAN : OpenComplete(streamStarts)
    \/ Close
    \/ CloseComplete
    \/ audioStreamFailed
    \/ \E session \in Sessions, timestamp \in Timestamps :
          pushMIDIShortMessage(session, timestamp)
    \/ \E length \in PassLengths : render(length)

(* --------------------------- specifications --------------------------- *)
\* No frame rendered, committed or delivered yet.
FrameInit(first) ==
    /\ nextFrame = first
    /\ ringData = <<>>
    /\ committedFrames = 0
    /\ delivered = <<>>

Init == JackInit /\ RouteInit /\ MidiModeInit /\ FrameInit(0)

\* The JACK audio stream with its three threads.
Next == JackNext

Spec == Init /\ [][Next]_vars

\* The processor thread and the process callback on one ring buffer that is
\* never resized, the frames numbered from 1.
FrameNext ==
    \/ \E autoLatencyMode \in BOOLEAN, jackBufferSizeFrames \in 1..MaxJackBuffer :
          Start(FALSE, TRUE, TRUE, autoLatencyMode, jackBufferSizeFrames)
    \/ RunSnapshot
    \/ RunCheckStop
    \/ RunCheckLatch
    \/ RunWritePointer
    \/ RunAcquire
    \/ RunRender
    \/ RunAdvance
    \/ \E frameCount \in 1..MaxRequest : RenderStreamsBegin(frameCount)
    \/ RenderStreamsGetChunk
    \/ RenderStreamsSilence
    \/ RenderStreamsCopy
    \/ MarkChunkProcessedAdvance
    \/ MarkChunkProcessedRelease
    \/ RenderStreamsReturn

FrameSpecInit == JackInit /\ RouteInit /\ MidiModeInit /\ FrameInit(1)

FrameSpec == FrameSpecInit /\ [][FrameNext]_vars

\* The route: state machine and MIDI merge, the settings of the stream fixed.
RouteSpecInit == Init /\ configuredAudioLatencyFrames = 1

RouteSpec == RouteSpecInit /\ [][RouteNext]_vars

\* open() of the route with the JACK audio stream it starts: open() creates
\* the stream by startAudioStream and finishes by what start() returned.
OpenStartAudioStream(midiSessionBound, realtimeProcessing, clientOpens, autoLatencyMode, jackBufferSizeFrames) ==
    /\ state = "OPENING"
    /\ Start(midiSessionBound, realtimeProcessing, clientOpens, autoLatencyMode,
             jackBufferSizeFrames)

OpenFinish ==
    /\ streamState \in {"started", "deleted"}
    /\ OpenComplete(streamState = "started")

OpenNext ==
    \/ Open
    \/ \E midiSessionBound \in BOOLEAN, realtimeProcessing \in BOOLEAN,
          clientOpens \in BOOLEAN, autoLatencyMode \in BOOLEAN,
          jackBufferSizeFrames \in 1..MaxJackBuffer :
            OpenStartAudioStream(midiSessionBound, realtimeProcessing, clientOpens,
                                 autoLatencyMode, jackBufferSizeFrames)
    \/ StartAudioStreamDelete
    \/ OpenFinish
    \/ ProcessorThread
    \/ \E newBufferSize \in 1..MaxJackBuffer : OnJACKBufferSizeChange(newBufferSize)
    \/ BufferSizeCallback

OpenSpec == Init /\ [][OpenNext]_vars

\* The MIDI routing modes of the route.
MidiModeSpec == RouteSpecInit /\ [][MidiModeNext]_vars

\* The stream in prerendering mode (start() without a MIDI session bound, with
\* realtime processing), its threads scheduled fairly.  No fairness is assumed
\* of the JACK server: it may invoke no callback at all.  The two acquisitions
\* of bufferSizeUpdateLatch are even taken to be strongly fair.
LiveNext ==
    \/ \E jackBufferSizeFrames \in 1..MaxJackBuffer :
          Start(FALSE, TRUE, TRUE, FALSE, jackBufferSizeFrames)
    \/ ProcessorThread
    \/ \E frameCount \in 1..MaxRequest : RenderStreamsBegin(frameCount)
    \/ RenderStreamsGetChunk
    \/ RenderStreamsSilence
    \/ RenderStreamsCopy
    \/ MarkChunkProcessedAdvance
    \/ MarkChunkProcessedRelease
    \/ RenderStreamsReturn
    \/ \E newBufferSize \in 1..MaxJackBuffer : OnJACKBufferSizeChange(newBufferSize)
    \/ BufferSizeCallback
    \/ StopCall

LiveSpec ==
    /\ Init
    /\ [][LiveNext]_vars
    /\ WF_vars(ProcessorThread)
    /\ WF_vars(RenderStreamsStep)
    /\ WF_vars(BufferSizeCallback)
    /\ WF_vars(ProcessorStopSetFlag \/ ProcessorStopRelease \/ ProcessorStopWait)
    /\ SF_vars(SetBufferSizeAcquireSecond)
    /\ SF_vars(RunLatchAcquire)

(* ------------------------------ properties ---------------------------- *)
\* The processor thread waits at line 61 and cannot go on.
ProcessorBlocked ==
    ppc = "l61" /\ bufferDataRetrievals < AcquireCount(currentRetrievals)

\* The frames that can still be written to the ring buffer.
FreeFrames == BytesToWrite(buffer) \div FRAME_BYTE_SIZE

\* The frames buffered in the ring buffer.
BufferedFrames == BytesToRead(buffer) \div FRAME_BYTE_SIZE

\* C1: in producer mode the reallocation (lines 122-125) never runs while the
\* processor thread is between writePointer and advanceWritePointer, and the
\* processor thread never takes a write pointer from, renders into or commits
\* on a ring buffer that has been deleted.
C1_ReallocationNotDuringWrite ==
    /\ kpc \in {"l122", "l125"} => ppc \notin {"l58", "l63", "l64"}
    /\ ~writePointerFreed
    /\ ~producerUsedFreed

\* A reallocation under way after the processor thread has rendered frames
\* into the old ring buffer and paused.
C1_Witness ==
    /\ kpc = "l125"
    /\ bufferFreed
    /\ ppc = "l54"
    /\ buffer.writePosition # 0

\* C2: the process callback never reads from, and never advances the read
\* position of, a ring buffer deleted by the reallocation; no read pointer
\* obtained before the reallocation is used after it.
C2_CallbackNeverUsesFreedBuffer == ~consumerUsedFreed

\* C3: a call of setBufferSize made while the processor thread runs and no
\* stop is requested eventually returns, also when the JACK server invokes
\* no process callback meanwhile.
C3_SetBufferSizeReturns == (kpc = "l109") ~> (kpc = "idle")

\* C4: the processor thread is never blocked at line 61 while the ring buffer
\* has room for a frame, unless the release that follows the retrieval is
\* still to come; at line 61 it can go on exactly when bufferDataRetrievals
\* was released after the snapshot of line 48, so it misses no release and
\* does not pass line 61 without one.
C4_NoLostWakeup ==
    /\ ProcessorBlocked => (FreeFrames = 0 \/ jpc = "l104")
    /\ ppc = "l61" =>
          (releasedSinceSnapshot <=> bufferDataRetrievals >= AcquireCount(currentRetrievals))

\* The processor thread found the buffer full and a release came after its
\* snapshot: the acquire of line 61 returns.
C4_Witness ==
    /\ ppc = "l61"
    /\ releasedSinceSnapshot
    /\ bufferDataRetrievals = currentRetrievals + 1
    /\ FreeFrames > 0

\* C5: once stop() has set stopProcessing and released bufferDataRetrievals,
\* the processor thread leaves its loop and stop() returns.
C5_StopTerminates == (spc = "l86") ~> (spc = "returned" /\ ppc = "done")

\* stop() has returned after it found the processor thread blocked at line 61.
C5_Witness ==
    /\ spc = "returned"
    /\ ppc = "done"
    /\ stopFoundBlocked

\* The output is frames of the ring buffer followed by silence.
FramesThenSilence(output) ==
    \A i \in 1..Len(output), j \in 1..Len(output) :
        (i < j /\ output[i] = "silence") => output[j] = "silence"

\* C6: in producer mode a process callback for N frames writes exactly N
\* frames, the frames of the ring buffer first and silence for the whole
\* rest as soon as no frame is available (N frames of silence when none is
\* available at entry), and no step of it waits for anything.
C6_Underrun ==
    /\ (processor /\ jpc \in {"l232", "l247"}) =>
          /\ Len(out) = totalFrameCount
          /\ FramesThenSilence(out)
          /\ framesAtEntry = 0 => out = Frames(totalFrameCount, "silence")
    /\ (processor /\ jpc # "idle") => ENABLED RenderStreamsStep

\* A callback for two frames returns one frame and one frame of silence.
C6_Witness ==
    /\ processor
    /\ jpc = "l232"
    /\ totalFrameCount = 2
    /\ out = <<"frame", "silence">>

\* C7: the bytes available to read, (W - R) mod C, are at most C - 1; the
\* bytes available to write and to read add up to C - 1; with the capacity
\* reallocateBuffer allocates and advances of whole frames the buffered
\* frames never exceed bufferSizeFrames.
C7_RingAccounting ==
    processor =>
        /\ buffer.writePosition \in 0..(buffer.bufferSize - 1)
        /\ buffer.readPosition \in 0..(buffer.bufferSize - 1)
        /\ buffer.writePosition % FRAME_BYTE_SIZE = 0
        /\ buffer.readPosition % FRAME_BYTE_SIZE = 0
        /\ BytesToRead(buffer) <= buffer.bufferSize - 1
        /\ BytesToWrite(buffer) + BytesToRead(buffer) = buffer.bufferSize - 1
        /\ BufferedFrames <= bufferSizeFrames

\* The ring buffer is full and its content wraps around the end.
C7_Witness ==
    /\ processor
    /\ BufferedFrames = bufferSizeFrames
    /\ buffer.writePosition < buffer.readPosition

\* The elements of a sequence.
Range(seq) == {seq[i] : i \in 1..Len(seq)}

\* The events of a queue that are later than `limit`, in the queue's order.
RECURSIVE LaterThan(_, _)
LaterThan(queue, limit) ==
    IF queue = <<>>
    THEN <<>>
    ELSE IF Head(queue).timestamp > limit
         THEN <<Head(queue)>> \o LaterThan(Tail(queue), limit)
         ELSE LaterThan(Tail(queue), limit)

\* C8: a render pass of length L from render time T (the step that advances
\* renderTime to T + L) dispatches exactly the pending events with timestamp
\* <= T + L, those older than T included, in non-decreasing timestamp order
\* across the sessions with ties in arrival order, and every later event
\* stays queued.
C8_MergeOrdering ==
    [][renderTime' > renderTime =>
          LET limit == renderTime'
              pending == UNION {Range(midiQueue[s]) : s \in Sessions}
              sent == dispatched'
          IN  /\ Range(sent) = {e \in pending : e.timestamp <= limit}
              /\ Len(sent) = Cardinality(Range(sent))
              /\ \A i \in 1..Len(sent), j \in 1..Len(sent) :
                    i < j => \/ sent[i].timestamp < sent[j].timestamp
                             \/ /\ sent[i].timestamp = sent[j].timestamp
                                /\ sent[i].arrival < sent[j].arrival
              /\ \A s \in Sessions :
                    midiQueue'[s] = LaterThan(midiQueue[s], limit)]_vars

\* A at t = 0, 10, 30 and B at t = 5: the pass [0, 25) dispatches
\* 0(A), 5(B), 10(A) and leaves 30(A) queued.
C8_Witness ==
    /\ renderTime = 25
    /\ [i \in 1..Len(dispatched) |-> <<dispatched[i].session, dispatched[i].timestamp>>]
         = << <<"A", 0>>, <<"B", 5>>, <<"A", 10>> >>
    /\ Len(midiQueue["A"]) = 1
    /\ midiQueue["A"][1].timestamp = 30
    /\ midiQueue["B"] = <<>>

\* The changes of state of the linear life cycle.
LinearTransitions ==
    { <<"CLOSED", "OPENING">>, <<"OPENING", "OPEN">>,
      <<"OPEN", "CLOSING">>, <<"CLOSING", "CLOSED">> }

\* C9: the route starts CLOSED and every change of its state is one of
\* CLOSED->OPENING, OPENING->OPEN, OPEN->CLOSING, CLOSING->CLOSED.
C9_StrictlyLinear ==
    /\ state = "CLOSED"
    /\ [][state' # state => <<state, state'>> \in LinearTransitions]_vars

\* C9 as amended: the route starts CLOSED and every change of its state is
\* one of the four above or OPENING->CLOSED, which a failed open() makes.
C9_LinearOrFailedOpen ==
    /\ state = "CLOSED"
    /\ [][state' # state =>
            <<state, state'>> \in LinearTransitions \cup { <<"OPENING", "CLOSED">> }]_vars

\* The route is CLOSED again after an open() that failed.
C9_Witness ==
    /\ state = "CLOSED"
    /\ lastResult = "failure"
    /\ ~audioStream

\* C10: close() called when the state is not OPEN and open() called when the
\* state is not CLOSED report failure and leave the route state, the audio
\* stream and the synthesizer unchanged.
C10_RejectedCalls ==
    [][((Open /\ state # "CLOSED") \/ (Close /\ state # "OPEN")) =>
          (lastResult' = "failure" /\ UNCHANGED <<state, audioStream, synthOpen>>)]_vars

\* A second open() was rejected: the route is still OPEN with its stream.
C10_Witness ==
    /\ state = "OPEN"
    /\ lastResult = "failure"
    /\ audioStream
    /\ synthOpen

\* C11: at most one session holds exclusive access; enabling exclusive mode
\* for session X while session Y holds it takes exclusive access from Y and
\* sends Y the exclusiveMidiSessionRemoved signal in that same step, so before
\* any event of X is dispatched on the fast path: between a fast-path event
\* of Y and a later one of X the log holds the removal of Y (or Y's leaving).
C11_ExclusiveMode ==
    /\ [](/\ Cardinality(exclusiveSessions) <= 1
          /\ \A i \in 1..Len(midiLog), k \in 1..Len(midiLog) :
                (/\ i < k
                 /\ midiLog[i].kind = "now"
                 /\ midiLog[k].kind = "now"
                 /\ midiLog[i].session # midiLog[k].session)
                => \E j \in (i + 1)..(k - 1) :
                      /\ midiLog[j].session = midiLog[i].session
                      /\ midiLog[j].kind \in {"removed", "left"})
    /\ [][\A x \in Sessions, y \in Sessions :
            (enableExclusiveMidiMode(x) /\ y \in exclusiveSessions /\ y # x)
            => /\ exclusiveSessions' = {x}
               /\ midiLog' = Append(midiLog, [kind |-> "removed", session |-> y])]_vars

\* Y dispatched on the fast path, X took exclusive access, Y got the removal
\* signal, then X dispatched on the fast path.
C11_Witness ==
    /\ exclusiveSessions = {"A"}
    /\ [i \in 1..Len(midiLog) |-> <<midiLog[i].kind, midiLog[i].session>>]
         = << <<"now", "B">>, <<"removed", "B">>, <<"now", "A">> >>

\* C12: in producer mode, once start() and every onJACKBufferSizeChange have
\* returned, audioLatencyFrames is the larger of the configured latency and
\* the buffer size the JACK client reported last, and the ring buffer in use
\* is allocated for that many frames plus one; a reported size below the
\* configured latency does not lower it.
C12_ConfiguredLatency ==
    (processor /\ kpc = "idle") =>
        /\ audioLatencyFrames = Max(configuredAudioLatencyFrames, jackBufferSize)
        /\ audioLatencyFrames >= configuredAudioLatencyFrames
        /\ ~bufferFreed
        /\ bufferSizeFrames = audioLatencyFrames
        /\ buffer.bufferSize = (audioLatencyFrames + 1) * FRAME_BYTE_SIZE

\* The stream started in auto latency mode with a JACK buffer of 2 frames (the
\* MIDI latency shows it) and a resize to 1 frame, below the configured
\* latency of 2, has returned: latency and ring buffer are those of 2 frames.
C12_Witness ==
    /\ processor
    /\ kpc = "idle"
    /\ bufferSizeUpdateLatch = 1
    /\ ppc = "l63"
    /\ configuredAudioLatencyFrames = 2
    /\ midiLatencyFrames = 2 + MINIMUM_JACK_BUFFER_COUNT * 2
    /\ jackBufferSize = 1
    /\ audioLatencyFrames = 2
    /\ buffer.bufferSize = 3 * FRAME_BYTE_SIZE

\* C13: a resize loses no frame: the ring buffer that reallocateBuffer
\* deletes and replaces by an empty one holds no committed frame that has not
\* been read.
C13_ResizeLosesNoFrame ==
    [][(kpc = "l125" /\ kpc' = "l118") => BytesToRead(buffer) = 0]_vars

\* C14: when the JACK client cannot be opened, start() fails and has created
\* no processor thread, no ring buffer and no buffer for synchronous
\* rendering; startAudioStream then deletes the stream and returns none; and
\* open() fails with the route back at CLOSED and no audio stream retained.
C14_ConnectionFailure ==
    /\ streamState \in {"failed", "deleted"} =>
          /\ ~clientOpen
          /\ ~processor
          /\ ppc = "notStarted"
          /\ buffer = NoBuffer
          /\ ~streamBuffer
    /\ streamState = "failed" => ENABLED StartAudioStreamDelete
    /\ (streamState = "deleted" /\ state # "OPENING") =>
          /\ state = "CLOSED"
          /\ ~audioStream
          /\ lastResult = "failure"
    /\ audioStream => (streamState = "started" /\ clientOpen)

\* open() has failed because the JACK client could not be opened.
C14_Witness ==
    /\ streamState = "deleted"
    /\ state = "CLOSED"
    /\ ~audioStream
    /\ lastResult = "failure"

(* C15: cooperative pause.  Once the processor thread has released the
   latch at line 53 it passes the acquire of line 54 only after the
   release(2) of line 118: the resource it released goes to setBufferSize,
   so it calls no writePointer, render or advanceWritePointer in between. *)
C15_CooperativePause == [][RunLatchAcquire => pauseAnswered]_vars

(* C16: the steady state of the resize latch.  bufferSizeUpdateLatch holds
   0, 1 or 2 resources in every state, and exactly 1 whenever no
   setBufferSize call is under way and the processor thread is not between
   its test at line 50 and its acquire at line 54: every completed resize
   leaves it where the constructor put it. *)
C16_LatchSteadyState ==
    /\ bufferSizeUpdateLatch \in 0..2
    /\ (kpc = "idle" /\ ppc \notin {"l53", "l54"}) => bufferSizeUpdateLatch = 1

\* A resize from 1 frame to 2 frames has completed and the processor thread
\* has left its pause.
C16_Witness ==
    /\ processor
    /\ kpc = "idle"
    /\ ppc = "l58"
    /\ bufferSizeUpdateLatch = 1
    /\ midiLatencyFrames = 1 + MINIMUM_JACK_BUFFER_COUNT * 1
    /\ bufferSizeFrames = 2
    /\ buffer.bufferSize = 3 * FRAME_BYTE_SIZE

(* C17: the frames-rendered counter.  When renderStreams returns
   (line 232 or line 247) renderedFramesCount has advanced by the requested
   frame count, with or without a processor thread, and also when an
   underrun left part or all of the output silent. *)
C17_FramesCounter ==
    jpc \in {"l232", "l247"} => renderedFramesCount = totalFrameCount

(* C18: a single render caller.  synthRoute.render is called at line 63 by
   the processor thread and at line 236 by the process callback, never by
   both at a time.  With a processor the callback never reaches line 236;
   without one there is neither a processor thread nor a ring buffer, and
   the callback renders chunks of at most MAX_SAMPLES_PER_RUN frames that
   add up to the requested frame count. *)
C18_SingleRenderCaller ==
    /\ [](/\ ~(ppc = "l63" /\ jpc = "l236")
          /\ processor => jpc # "l236"
          /\ ~processor => (ppc = "notStarted" /\ buffer = NoBuffer /\ jpc \notin
                                {"l226", "l228", "l232", "l239", "l243", "l104"})
          /\ (~processor /\ jpc = "l247") => out = Frames(totalFrameCount, "frame"))
    /\ [][RenderStreamsSynchronous =>
             /\ Len(out') - Len(out) \in 1..MAX_SAMPLES_PER_RUN
             /\ Len(out') - Len(out) = framesLeft - framesLeft']_vars

\* Without a processor, a callback for 2 frames has rendered them in two
\* chunks into the stream's own buffer.
C18_Witness ==
    /\ streamState = "started"
    /\ ~processor
    /\ streamBuffer
    /\ jpc = "l247"
    /\ totalFrameCount = 2
    /\ out = <<"frame", "frame">>

(* C19: FIFO delivery.  With a processor thread and no resize, the frames
   the process callback has copied to the output are the first frames the
   processor thread rendered, in the order it rendered them, none twice and
   none left out, and each was committed by advanceWritePointer (line 64)
   before it was copied; also when a write or a read wraps around the end
   of the ring buffer. *)
C19_FifoDelivery ==
    /\ delivered = [i \in 1..Len(delivered) |-> i]
    /\ Len(delivered) <= committedFrames
    /\ committedFrames < nextFrame

\* Six frames went through a ring buffer of two slots: writes and reads have
\* wrapped around its end.
C19_Witness ==
    /\ Len(ringData) = 2
    /\ Len(delivered) = 6
    /\ jpc = "l247"

(* C20: the frame of a buffer-size change.  onJACKBufferSizeChange and the
   setBufferSize call it makes change audioLatencyFrames and the ring
   buffer, and nothing else of the stream: midiLatencyFrames and
   configuredAudioLatencyFrames keep their values.  Without a processor the
   call changes nothing and starts no handshake.  midiLatencyFrames is
   assigned by start() only, in auto latency mode to audioLatencyFrames +
   MINIMUM_JACK_BUFFER_COUNT * the buffer size JACK reported then. *)
C20_BufferSizeChangeFrame ==
    /\ [][((\E newBufferSize \in 1..MaxJackBuffer : OnJACKBufferSizeChange(newBufferSize))
             \/ BufferSizeCallback) =>
            /\ UNCHANGED <<midiLatencyFrames, configuredAudioLatencyFrames, streamState,
                           clientOpen, processor, streamBuffer, stopProcessing,
                           prodVars, consVars>>
            /\ ~processor => UNCHANGED <<audioLatencyFrames, bufVars, semVars, coordVars>>]_vars
    /\ [][midiLatencyFrames' # midiLatencyFrames =>
            (streamState = "constructed" /\ streamState' = "started")]_vars
    /\ [][\A realtimeProcessing \in BOOLEAN, jackBufferSizeFrames \in 1..MaxJackBuffer :
            Start(FALSE, realtimeProcessing, TRUE, TRUE, jackBufferSizeFrames) =>
                midiLatencyFrames' = audioLatencyFrames'
                                      + MINIMUM_JACK_BUFFER_COUNT * jackBufferSizeFrames]_vars

\* start() saw a buffer size of 1 frame and set the MIDI latency to 1 + 2 * 1;
\* a change to 2 frames has since resized the ring buffer.
C20_Witness ==
    /\ processor
    /\ kpc = "idle"
    /\ configuredAudioLatencyFrames = 1
    /\ jackBufferSize = 2
    /\ audioLatencyFrames = 2
    /\ ~bufferFreed
    /\ midiLatencyFrames = 3

====
